---- MODULE Spec2Model ----
(***************************************************************************)
(* Model of the PM Guardian access-control service: the permission graph   *)
(* store (resources, permissions, policies, roles and their association    *)
(* tables), the administrative endpoints that write it, and the two        *)
(* implementations of the access check (POST /check-access and             *)
(* utils.check_access).                                                    *)
(***************************************************************************)
EXTENDS Naturals, Integers, Sequences, FiniteSets, Bags, TLC

VARIABLES
    resources,           \* table resources, in storage order
    permissions,         \* table permissions
    policies,            \* table policies
    roles,               \* table roles
    role_policies,       \* table role_policies, a bag of rows
    policy_permissions,  \* table policy_permissions
    user_roles,          \* table user_roles, a bag of rows
    tables_exist,        \* TRUE once db.create_all() has created the schema
    response,            \* what the last request or call returned, with the
                         \* exception the store raised for it, if any
    inflight,            \* the requests being served concurrently: for each
                         \* caller the position of its handler and what it
                         \* has read so far
    session,             \* db.session: the writes added to the unit of work
                         \* and not flushed yet
    row_order            \* the order in which the engine returns the rows
                         \* of a query that asks for none

store == <<resources, permissions, policies, roles, role_policies,
           policy_permissions, user_roles, tables_exist>>
vars == <<resources, permissions, policies, roles, role_policies,
          policy_permissions, user_roles, tables_exist, response, inflight,
          session, row_order>>

----------------------------------------------------------------------------
(* Bounds of the model.                                                    *)
MaxRows == 9

(* Values the requests are drawn from.                                     *)
None == "<None>"
ResourceNames == {"project"}
Companies == {"c1", "c2"}
PolicyNames == {"editor-policy", "viewer-policy"}
RoleNames == {"editor", "viewer"}
Users == {"u1"}
StoredOperations == {"read"}
ResourceIds == 1..2
PermissionIds == 1..2
PolicyIds == 1..2
RoleIds == 1..2

\* variant: the enumeration accepts one more value
OperationEnum_extended == {"create", "read", "update", "delete", "transmogrify"}

(* app.models.permission.OperationEnum                                     *)
OperationEnum == {"create", "read", "update", "delete"}

----------------------------------------------------------------------------
(* Helpers over the tables.                                                *)

\* the falsy values of `not x` for a JSON string field: absent key or ""
Falsy(x) == x = None \/ x = ""

Range(s) == {s[i] : i \in DOMAIN s}

\* number of rows in the store
TotalRows ==
    Len(resources) + Cardinality(permissions) + Cardinality(policies)
    + Cardinality(roles) + BagCardinality(role_policies)
    + BagCardinality(policy_permissions) + BagCardinality(user_roles)

Ids(rows) == {row.id : row \in rows}

\* a freshly generated identifier (uuid4): any value not in use
FreshId(used) == CHOOSE n \in 1..(Cardinality(used) + 1) : n \notin used

NoRow == [id |-> 0]

\* variant: the name filter is dropped, the first stored row is returned
ResourceByName_unfiltered(name) ==
    IF resources = <<>> THEN NoRow ELSE resources[1]

\* the orders an engine can return the rows of one name in: the order of
\* insertion (a scan of the table) or the order of the unique index on
\* (name, company_id)
RowOrders == {"insertion", "index"}

\* the position of a company_id among the company_ids, as strings compare
CompanyRank(company_id) ==
    IF company_id = "c1" THEN 1 ELSE IF company_id = "c2" THEN 2 ELSE 3

\* Resource.query.filter_by(name=...).first(): the first row of that name
\* in the order the engine returns them, or None
ResourceByName(name) ==
    LET idx == {i \in DOMAIN resources : resources[i].name = name}
        before(i, j) ==
            IF row_order = "insertion" THEN i <= j
            ELSE \/ CompanyRank(resources[i].company_id)
                      < CompanyRank(resources[j].company_id)
                 \/ /\ resources[i].company_id = resources[j].company_id
                    /\ i <= j
    IN  IF idx = {} THEN NoRow
        ELSE resources[CHOOSE i \in idx : \A j \in idx : before(i, j)]

\* requests are served one at a time: `response` holds the reply of the
\* last one until its caller has taken it
NoResponse == [api |-> "none", status |-> 0]
Idle == response = NoResponse

\* RolePolicy(role_id=..., policy_id=...)
RolePolicyRow(role_id, policy_id) ==
    [role_id |-> role_id, policy_id |-> policy_id]

\* the callers whose requests may be served at the same time
Callers == {"a", "b"}

\* no request is being served concurrently; the session holds no write
NotStarted == [pc |-> "none"]
NoInflight == [c \in Callers |-> NotStarted]
NoWrites == <<>>

----------------------------------------------------------------------------
(* The access check.  `fail` names the lookup at which the store raises    *)
(* (0: none; 1: resource, 2: user roles, 3: role policies, 4: policy       *)
(* permissions, 5: permission).                                            *)

\* variant: a failure of the last lookup is swallowed
Raises_lastSwallowed(fail, lookup) == fail = lookup /\ lookup # 5

\* the store raises at this lookup, inside the try block of the check
Raises(fail, lookup) == fail = lookup

\* UserRole.query.filter_by(user_id=user_id).all()
UserRolesOf(user_id) == {ur \in BagToSet(user_roles) : ur.user_id = user_id}

\* RolePolicy.query.filter(RolePolicy.role_id.in_(role_ids)).all()
RolePoliciesOf(role_ids) == {rp \in BagToSet(role_policies) : rp.role_id \in role_ids}

\* variant: rows stored more than once are left out
PolicyPermissionsOf_single(policy_ids) ==
    {pp \in BagToSet(policy_permissions) :
        pp.policy_id \in policy_ids /\ CopiesIn(pp, policy_permissions) = 1}

\* variant: the policy filter is dropped
PolicyPermissionsOf_unfiltered(policy_ids) == BagToSet(policy_permissions)

\* PolicyPermission.query.filter(PolicyPermission.policy_id.in_(policy_ids)).all()
PolicyPermissionsOf(policy_ids) ==
    {pp \in BagToSet(policy_permissions) : pp.policy_id \in policy_ids}

\* variant: the operation is not compared
MatchingPermissions_anyOperation(permission_ids, resource, op_enum) ==
    {p \in permissions : /\ p.id \in permission_ids
                         /\ p.resource_id = resource.id}

\* Permission.query.filter(id in permission_ids, resource_id, operation).first()
MatchingPermissions(permission_ids, resource, op_enum) ==
    {p \in permissions : /\ p.id \in permission_ids
                         /\ p.resource_id = resource.id
                         /\ p.operation = op_enum}

\* CheckAccessResource.post: the (body, status) pair it returns
CheckAccessResourcePostResult(user_id, resource_name, operation, fail) ==
    IF Falsy(user_id) \/ Falsy(resource_name) \/ Falsy(operation)
    THEN [body |-> [error |-> "Missing user_id, resource, or operation."],
          status |-> 400]
    ELSE
    LET unexpected == [body |-> [error |-> "An unexpected error occurred."],
                       status |-> 500]
        resource == ResourceByName(resource_name)
        user_rolesQ == UserRolesOf(user_id)
        role_ids == {ur.role_id : ur \in user_rolesQ}
        role_policiesQ == RolePoliciesOf(role_ids)
        policy_ids == {rp.policy_id : rp \in role_policiesQ}
        policy_permissionsQ == PolicyPermissionsOf(policy_ids)
        permission_ids == {pp.permission_id : pp \in policy_permissionsQ}
    IN  IF Raises(fail, 1) THEN unexpected
        ELSE IF resource = NoRow
        THEN [body |-> [access_granted |-> FALSE,
                        reason |-> "Resource '" \o resource_name \o "' not found."],
              status |-> 404]
        ELSE IF operation \notin OperationEnum
        THEN [body |-> [access_granted |-> FALSE,
                        reason |-> "Operation '" \o operation \o "' is invalid."],
              status |-> 400]
        ELSE IF Raises(fail, 2) THEN unexpected
        ELSE IF user_rolesQ = {}
        THEN [body |-> [access_granted |-> FALSE,
                        reason |-> "User has no roles assigned."],
              status |-> 403]
        ELSE IF Raises(fail, 3) THEN unexpected
        ELSE IF role_policiesQ = {}
        THEN [body |-> [access_granted |-> FALSE,
                        reason |-> "User's roles have no policies assigned."],
              status |-> 403]
        ELSE IF Raises(fail, 4) THEN unexpected
        ELSE IF policy_permissionsQ = {}
        THEN [body |-> [access_granted |-> FALSE,
                        reason |-> "Policies have no permissions assigned."],
              status |-> 403]
        ELSE IF Raises(fail, 5) THEN unexpected
        ELSE IF MatchingPermissions(permission_ids, resource, operation) # {}
        THEN [body |-> [access_granted |-> TRUE,
                        reason |-> "Access granted by user role and policy."],
              status |-> 200]
        ELSE [body |-> [access_granted |-> FALSE,
                        reason |-> "No matching permission found for user roles."],
              status |-> 403]

\* variant: the user's roles are looked up before the operation is validated
check_access_rolesFirst(user_id, resource_name, operation, fail) ==
    LET posted == CheckAccessResourcePostResult(user_id, resource_name,
                                                operation, fail)
    IN  IF /\ fail = 0
           /\ ~Falsy(resource_name)
           /\ ResourceByName(resource_name) # NoRow
           /\ operation \notin OperationEnum
           /\ UserRolesOf(user_id) = {}
        THEN [access_granted |-> FALSE,
              reason |-> "User has no roles assigned.", status |-> 403]
        ELSE [access_granted |-> /\ "access_granted" \in DOMAIN posted.body
                                 /\ posted.body.access_granted,
              reason |-> IF "reason" \in DOMAIN posted.body
                         THEN posted.body.reason ELSE posted.body.error,
              status |-> posted.status]

\* utils.check_access: the (access_granted, reason, status_code) tuple
check_access(user_id, resource_name, operation, fail) ==
    LET unexpected == [access_granted |-> FALSE,
                       reason |-> "An unexpected error occurred.",
                       status |-> 500]
        resource == ResourceByName(resource_name)
        user_rolesQ == UserRolesOf(user_id)
        role_ids == {ur.role_id : ur \in user_rolesQ}
        role_policiesQ == RolePoliciesOf(role_ids)
        policy_ids == {rp.policy_id : rp \in role_policiesQ}
        policy_permissionsQ == PolicyPermissionsOf(policy_ids)
        permission_ids == {pp.permission_id : pp \in policy_permissionsQ}
    IN  IF Raises(fail, 1) THEN unexpected
        ELSE IF resource = NoRow
        THEN [access_granted |-> FALSE,
              reason |-> "Resource '" \o resource_name \o "' not found.",
              status |-> 404]
        ELSE IF operation \notin OperationEnum
        THEN [access_granted |-> FALSE,
              reason |-> "Operation '" \o operation \o "' is invalid.",
              status |-> 400]
        ELSE IF Raises(fail, 2) THEN unexpected
        ELSE IF user_rolesQ = {}
        THEN [access_granted |-> FALSE,
              reason |-> "User has no roles assigned.", status |-> 403]
        ELSE IF Raises(fail, 3) THEN unexpected
        ELSE IF role_policiesQ = {}
        THEN [access_granted |-> FALSE,
              reason |-> "User's roles have no policies assigned.",
              status |-> 403]
        ELSE IF Raises(fail, 4) THEN unexpected
        ELSE IF policy_permissionsQ = {}
        THEN [access_granted |-> FALSE,
              reason |-> "Policies have no permissions assigned.",
              status |-> 403]
        ELSE IF Raises(fail, 5) THEN unexpected
        ELSE IF MatchingPermissions(permission_ids, resource, operation) # {}
        THEN [access_granted |-> TRUE,
              reason |-> "Access granted by user role and policy.",
              status |-> 200]
        ELSE [access_granted |-> FALSE,
              reason |-> "No matching permission found for user roles.",
              status |-> 403]

----------------------------------------------------------------------------
Init ==
    /\ resources = <<>>
    /\ permissions = {}
    /\ policies = {}
    /\ roles = {}
    /\ role_policies = EmptyBag
    /\ policy_permissions = EmptyBag
    /\ user_roles = EmptyBag
    /\ tables_exist = TRUE
    /\ response = NoResponse
    /\ inflight = NoInflight
    /\ session = NoWrites
    /\ row_order = "insertion"

\* POST /resources
ResourceListPost(name, company_id) ==
    /\ UNCHANGED <<inflight, session, row_order>>
    /\ Idle
    /\ TotalRows < MaxRows
    /\ IF ~tables_exist
       THEN /\ response' = [api |-> "POST /resources", status |-> 500,
                            raised |-> "OperationalError"]
            /\ UNCHANGED store
       ELSE IF \E r \in Range(resources) : r.name = name /\ r.company_id = company_id
       THEN /\ response' = [api |-> "POST /resources", status |-> 409,
                            raised |-> "UniqueViolation"]
            /\ UNCHANGED store
       ELSE /\ resources' = Append(resources,
                   [id |-> FreshId(Ids(Range(resources))), name |-> name,
                    company_id |-> company_id])
            /\ response' = [api |-> "POST /resources", status |-> 201,
                            raised |-> "none"]
            /\ UNCHANGED <<permissions, policies, roles, role_policies,
                           policy_permissions, user_roles, tables_exist>>

\* POST /permissions
PermissionListPost(resource_id, operation, company_id) ==
    /\ UNCHANGED <<inflight, session, row_order>>
    /\ Idle
    /\ TotalRows < MaxRows
    /\ IF operation \notin OperationEnum
       THEN /\ response' = [api |-> "POST /permissions", status |-> 400,
                            raised |-> "none"]
            /\ UNCHANGED store
       ELSE IF ~tables_exist
       THEN /\ response' = [api |-> "POST /permissions", status |-> 500,
                            raised |-> "OperationalError"]
            /\ UNCHANGED store
       ELSE IF \/ resource_id \notin Ids(Range(resources))
               \/ \E p \in permissions : /\ p.company_id = company_id
                                         /\ p.resource_id = resource_id
                                         /\ p.operation = operation
       THEN /\ response' = [api |-> "POST /permissions", status |-> 409,
                            raised |-> IF resource_id \in Ids(Range(resources))
                                       THEN "UniqueViolation"
                                       ELSE "ForeignKeyViolation"]
            /\ UNCHANGED store
       ELSE /\ permissions' = permissions \cup
                   {[id |-> FreshId(Ids(permissions)), resource_id |-> resource_id,
                     operation |-> operation, company_id |-> company_id]}
            /\ response' = [api |-> "POST /permissions", status |-> 201,
                            raised |-> "none"]
            /\ UNCHANGED <<resources, policies, roles, role_policies,
                           policy_permissions, user_roles, tables_exist>>

\* POST /policies
PolicyListPost(name) ==
    /\ UNCHANGED <<inflight, session, row_order>>
    /\ Idle
    /\ TotalRows < MaxRows
    /\ IF name = ""
       THEN /\ response' = [api |-> "POST /policies", status |-> 400,
                            raised |-> "none"]
            /\ UNCHANGED store
       ELSE IF \E p \in policies : p.name = name
       THEN /\ response' = [api |-> "POST /policies", status |-> 409,
                            raised |-> "UniqueViolation"]
            /\ UNCHANGED store
       ELSE /\ policies' = policies \cup
                   {[id |-> FreshId(Ids(policies)), name |-> name]}
            /\ response' = [api |-> "POST /policies", status |-> 201,
                            raised |-> "none"]
            /\ UNCHANGED <<resources, permissions, roles, role_policies,
                           policy_permissions, user_roles, tables_exist>>

\* POST /roles
RoleListPost(name, company_id) ==
    /\ UNCHANGED <<inflight, session, row_order>>
    /\ Idle
    /\ TotalRows < MaxRows
    /\ IF \/ \E r \in roles : r.name = name
          \/ company_id = None
       THEN /\ response' = [api |-> "POST /roles", status |-> 409,
                            raised |-> IF company_id = None
                                       THEN "NotNullViolation"
                                       ELSE "UniqueViolation"]
            /\ UNCHANGED store
       ELSE /\ roles' = roles \cup
                   {[id |-> FreshId(Ids(roles)), name |-> name,
                     company_id |-> company_id]}
            /\ response' = [api |-> "POST /roles", status |-> 201,
                            raised |-> "none"]
            /\ UNCHANGED <<resources, permissions, policies, role_policies,
                           policy_permissions, user_roles, tables_exist>>

\* a variant that stores the assignment without looking for an existing one
RolePoliciesPost_unchecked(role_id, policy_id) ==
    /\ UNCHANGED <<inflight, session, row_order>>
    /\ Idle
    /\ TotalRows < MaxRows
    /\ IF policy_id = NoRow.id
       THEN /\ response' = [api |-> "POST /roles/policies", status |-> 400]
            /\ UNCHANGED store
       ELSE IF role_id \notin Ids(roles) \/ policy_id \notin Ids(policies)
       THEN /\ response' = [api |-> "POST /roles/policies", status |-> 404]
            /\ UNCHANGED store
       ELSE /\ role_policies' = role_policies (+)
                   SetToBag({[role_id |-> role_id, policy_id |-> policy_id]})
            /\ response' = [api |-> "POST /roles/policies", status |-> 201]
            /\ UNCHANGED <<resources, permissions, policies, roles,
                           policy_permissions, user_roles, tables_exist>>

\* POST /roles/<role_id>/policies
RolePoliciesPost(role_id, policy_id) ==
    /\ UNCHANGED <<inflight, session, row_order>>
    /\ Idle
    /\ TotalRows < MaxRows
    /\ IF policy_id = NoRow.id
       THEN /\ response' = [api |-> "POST /roles/policies", status |-> 400]
            /\ UNCHANGED store
       ELSE IF role_id \notin Ids(roles) \/ policy_id \notin Ids(policies)
       THEN /\ response' = [api |-> "POST /roles/policies", status |-> 404]
            /\ UNCHANGED store
       ELSE IF \E rp \in BagToSet(role_policies) :
                  rp.role_id = role_id /\ rp.policy_id = policy_id
       THEN /\ response' = [api |-> "POST /roles/policies", status |-> 409]
            /\ UNCHANGED store
       ELSE /\ role_policies' = role_policies (+)
                   SetToBag({[role_id |-> role_id, policy_id |-> policy_id]})
            /\ response' = [api |-> "POST /roles/policies", status |-> 201]
            /\ UNCHANGED <<resources, permissions, policies, roles,
                           policy_permissions, user_roles, tables_exist>>

\* a PolicyPermission row added through the session; duplicates are stored
PolicyPermissionAdd(policy_id, permission_id) ==
    /\ UNCHANGED <<inflight, session, row_order>>
    /\ Idle
    /\ TotalRows < MaxRows
    /\ policy_id \in Ids(policies)
    /\ permission_id \in Ids(permissions)
    /\ policy_permissions' = policy_permissions (+)
           SetToBag({[policy_id |-> policy_id, permission_id |-> permission_id]})
    /\ response' = [api |-> "add PolicyPermission", status |-> 0]
    /\ UNCHANGED <<resources, permissions, policies, roles, role_policies,
                   user_roles, tables_exist>>

\* POST /user-roles
UserRoleListPost(user_id, role_id, company_id) ==
    /\ UNCHANGED <<inflight, session, row_order>>
    /\ Idle
    /\ TotalRows < MaxRows
    /\ IF \/ role_id \notin Ids(roles)
          \/ \E ur \in BagToSet(user_roles) : /\ ur.user_id = user_id
                                    /\ ur.role_id = role_id
                                    /\ ur.company_id = company_id
       THEN /\ response' = [api |-> "POST /user-roles", status |-> 409,
                            raised |-> IF role_id \in Ids(roles)
                                       THEN "UniqueViolation"
                                       ELSE "ForeignKeyViolation"]
            /\ UNCHANGED store
       ELSE /\ user_roles' = user_roles (+)
                   SetToBag({[user_id |-> user_id, role_id |-> role_id,
                              company_id |-> company_id]})
            /\ response' = [api |-> "POST /user-roles", status |-> 201,
                            raised |-> "none"]
            /\ UNCHANGED <<resources, permissions, policies, roles,
                           role_policies, policy_permissions, tables_exist>>

\* the caller has not taken the last reply yet and sends the same call again
Repeats(api, user_id, resource_name, operation, fail) ==
    /\ response.api = api
    /\ response.user_id = user_id
    /\ response.resource = resource_name
    /\ response.operation = operation
    /\ response.fail = fail

\* variant: a resource that is not found is created by the check
CheckAccessResourcePost_getOrCreate(user_id, resource_name, operation, fail) ==
    /\ UNCHANGED <<inflight, session, row_order>>
    /\ \/ Idle
       \/ Repeats("POST /check-access", user_id, resource_name, operation, fail)
    /\ response' = [api |-> "POST /check-access", user_id |-> user_id,
                    resource |-> resource_name, operation |-> operation,
                    fail |-> fail,
                    result |-> CheckAccessResourcePostResult(
                                   user_id, resource_name, operation, fail)]
    /\ IF ~Falsy(resource_name) /\ ResourceByName(resource_name) = NoRow
       THEN /\ resources' = Append(resources,
                   [id |-> FreshId(Ids(Range(resources))),
                    name |-> resource_name, company_id |-> "c1"])
            /\ UNCHANGED <<permissions, policies, roles, role_policies,
                           policy_permissions, user_roles, tables_exist>>
       ELSE UNCHANGED store

\* POST /check-access
CheckAccessResourcePost(user_id, resource_name, operation, fail) ==
    /\ UNCHANGED <<inflight, session, row_order>>
    /\ \/ Idle
       \/ Repeats("POST /check-access", user_id, resource_name, operation, fail)
    /\ response' = [api |-> "POST /check-access", user_id |-> user_id,
                    resource |-> resource_name, operation |-> operation,
                    fail |-> fail,
                    result |-> CheckAccessResourcePostResult(
                                   user_id, resource_name, operation, fail)]
    /\ UNCHANGED store

\* a call of utils.check_access
CheckAccessCall(user_id, resource_name, operation, fail) ==
    /\ UNCHANGED <<inflight, session, row_order>>
    /\ \/ Idle
       \/ Repeats("check_access", user_id, resource_name, operation, fail)
    /\ response' = [api |-> "check_access", user_id |-> user_id,
                    resource |-> resource_name, operation |-> operation,
                    fail |-> fail,
                    result |-> check_access(user_id, resource_name,
                                            operation, fail)]
    /\ UNCHANGED store

(* Values the access checks are called with.                               *)
RequestUsers == {"u1", "u2", "", None}
RequestResources == {"project", "config", ""}
RequestOperations == {"read", "delete", "transmogrify", ""}
FailPoints == 1..5

\* the caller takes the reply; the next request can be served
TakeResponse ==
    /\ UNCHANGED <<inflight, session, row_order>>
    /\ ~Idle
    /\ response' = NoResponse
    /\ UNCHANGED store

Next ==
    \/ \E name \in ResourceNames, c \in Companies : ResourceListPost(name, c)
    \/ \E rid \in ResourceIds, op \in StoredOperations :
          PermissionListPost(rid, op, "c1")
    \/ \E name \in PolicyNames : PolicyListPost(name)
    \/ \E name \in RoleNames : RoleListPost(name, "c1")
    \/ \E rid \in RoleIds, pid \in PolicyIds : RolePoliciesPost(rid, pid)
    \/ \E pid \in PolicyIds, perm \in PermissionIds :
          PolicyPermissionAdd(pid, perm)
    \/ \E u \in Users, rid \in RoleIds : UserRoleListPost(u, rid, "c1")
    \/ TakeResponse
    \/ \E u \in RequestUsers, r \in RequestResources, o \in RequestOperations :
          CheckAccessResourcePost(u, r, o, 0)
    \/ \E u \in RequestUsers, r \in RequestResources, o \in RequestOperations :
          CheckAccessCall(u, r, o, 0)
    \/ \E o \in {"read", "transmogrify"}, f \in FailPoints :
          CheckAccessResourcePost("u1", "project", o, f)
    \/ \E o \in {"read", "transmogrify"}, f \in FailPoints :
          CheckAccessCall("u1", "project", o, f)

Spec == Init /\ [][Next]_vars

-----------------------------------------------------------------------------
\* Start-up: the resource catalog and its reconciliation with the store.

\* variant: the last catalog entry is lost
RESOURCES_withoutUserRole ==
    <<"ConfigResource", "PermissionResource", "PolicyResource",
      "ResourceResource", "RoleResource">>

\* the canonical list of resources (names, in the order of the list)
RESOURCES ==
    <<"ConfigResource", "PermissionResource", "PolicyResource",
      "ResourceResource", "RoleResource", "UserRoleResource">>

\* the write of a reconciliation at which a failure is injected (0: none)
SyncFailPoints == 0..7

\* names a caller may post in the start-up specification: one catalog name
\* and one name the catalog does not have
BootNames == {"ConfigResource", "project"}

StoredNames == {r.name : r \in Range(resources)}

\* step 3 of the reconciler: each of the given names is inserted with a
\* freshly generated identifier
RECURSIVE InsertMissing(_, _)
InsertMissing(rows, names) ==
    IF names = <<>> THEN rows
    ELSE InsertMissing(
             Append(rows, [id |-> FreshId(Ids(Range(rows))),
                           name |-> Head(names), company_id |-> None]),
             Tail(names))

\* variant: every catalog name is taken as missing
SyncMissing_all(rows) == RESOURCES

\* the catalog names the store does not have, and the stored rows whose name
\* the catalog does not have (steps 1 and 2 of the reconciler)
SyncMissing(rows) ==
    SelectSeq(RESOURCES, LAMBDA n : n \notin {r.name : r \in Range(rows)})
SyncObsolete(rows) ==
    SelectSeq(rows, LAMBDA r : r.name \notin Range(RESOURCES))

\* the writes of one reconciliation: an insert per missing name, then a
\* delete per obsolete row
SyncWrites(rows) == Len(SyncMissing(rows)) + Len(SyncObsolete(rows))

\* the Resource table once the first n writes of a reconciliation are applied
SyncAfter(rows, n) ==
    LET missing == SyncMissing(rows)
        obsolete == SyncObsolete(rows)
        inserts == IF n < Len(missing) THEN n ELSE Len(missing)
        gone == {obsolete[i].id : i \in 1..(n - inserts)}
    IN SelectSeq(InsertMissing(rows, SubSeq(missing, 1, inserts)),
                 LAMBDA r : r.id \notin gone)

\* variant: each write is committed on its own
SyncCommitted_perWrite(rows, fail) ==
    IF fail = 0 \/ fail > SyncWrites(rows)
    THEN SyncAfter(rows, SyncWrites(rows))
    ELSE SyncAfter(rows, fail - 1)

\* step 5 of the reconciler: the Resource table after the single commit, when
\* write number fail raises (0: none does); a failure rolls every write back
SyncCommitted(rows, fail) ==
    IF fail = 0 \/ fail > SyncWrites(rows)
    THEN SyncAfter(rows, SyncWrites(rows))
    ELSE rows

\* the permissions left once the resources with the given ids are deleted
CascadePermissions(perms, deleted) ==
    {p \in perms : p.resource_id \notin deleted}

\* sync_resources(): no-op while the Resource table does not exist; otherwise
\* inserts the missing catalog names, deletes the rows whose name the catalog
\* does not have together with their permissions, in one commit
SyncResources(fail) ==
    /\ UNCHANGED <<inflight, session, row_order>>
    /\ Idle \/ response.api = "sync_resources"
    /\ IF ~tables_exist
       THEN /\ response' = [api |-> "sync_resources", raised |-> FALSE,
                            changed |-> FALSE]
            /\ UNCHANGED store
       ELSE LET after == SyncCommitted(resources, fail)
            IN /\ resources' = after
               /\ permissions' = CascadePermissions(permissions,
                      Ids(Range(resources)) \ Ids(Range(after)))
               /\ response' = [api |-> "sync_resources",
                               raised |-> fail \in 1..SyncWrites(resources),
                               changed |-> after # resources]
               /\ UNCHANGED <<policies, roles, role_policies,
                              policy_permissions, user_roles, tables_exist>>

\* db.create_all(): creates the tables that do not exist yet
CreateAll ==
    /\ UNCHANGED <<inflight, session, row_order>>
    /\ Idle
    /\ tables_exist' = TRUE
    /\ response' = [api |-> "db.create_all", status |-> 0]
    /\ UNCHANGED <<resources, permissions, policies, roles, role_policies,
                   policy_permissions, user_roles>>

\* the values of OperationEnum in the order of the class
OperationSeq == <<"create", "read", "update", "delete">>

\* step 1 of the seeder: a Role named superadmin is created, with a null
\* company_id, if none exists
SeededRoles(rs) ==
    IF \E r \in rs : r.name = "superadmin" THEN rs
    ELSE rs \cup {[id |-> FreshId(Ids(rs)), name |-> "superadmin",
                   company_id |-> None]}

\* step 2 of the seeder, from the n-th (resource, operation) pair on: a
\* Permission is created for each pair that has none
RECURSIVE EnsurePermissions(_, _, _)
EnsurePermissions(perms, rows, n) ==
    IF n > 4 * Len(rows) THEN perms
    ELSE LET r == rows[((n - 1) \div 4) + 1]
             op == OperationSeq[((n - 1) % 4) + 1]
         IN EnsurePermissions(
                IF \E p \in perms : p.resource_id = r.id /\ p.operation = op
                THEN perms
                ELSE perms \cup {[id |-> FreshId(Ids(perms)),
                                  resource_id |-> r.id, operation |-> op,
                                  company_id |-> None]},
                rows, n + 1)

\* variant: the seeder bundles the permissions in a policy of the role
EnsureSuperadminRole_linked ==
    /\ UNCHANGED <<inflight, session, row_order>>
    /\ Idle \/ response.api = "ensure_superadmin_role"
    /\ TotalRows + 4 * Len(resources) + 1 <= MaxRows
    /\ tables_exist
    /\ roles' = SeededRoles(roles)
    /\ permissions' = EnsurePermissions(permissions, resources, 1)
    /\ policies' = policies \cup {[id |-> FreshId(Ids(policies)),
                                   name |-> "superadmin"]}
    /\ role_policies' = role_policies (+) SetToBag(
           {[role_id |-> r.id, policy_id |-> FreshId(Ids(policies))] :
               r \in {s \in roles' : s.name = "superadmin"}})
    /\ policy_permissions' = policy_permissions (+) SetToBag(
           {[policy_id |-> FreshId(Ids(policies)), permission_id |-> p.id] :
               p \in permissions'})
    /\ response' = [api |-> "ensure_superadmin_role", raised |-> FALSE,
                    created |-> 1]
    /\ UNCHANGED <<resources, user_roles, tables_exist>>

\* ensure_superadmin_role(), called on its own on a store small enough for
\* the rows it may create
EnsureSuperadminRole ==
    /\ UNCHANGED <<inflight, session, row_order>>
    /\ Idle \/ response.api = "ensure_superadmin_role"
    /\ TotalRows + 4 * Len(resources) + 1 <= MaxRows
    /\ IF ~tables_exist
       THEN /\ response' = [api |-> "ensure_superadmin_role",
                            raised |-> TRUE, created |-> 0]
            /\ UNCHANGED store
       ELSE /\ roles' = SeededRoles(roles)
            /\ permissions' = EnsurePermissions(permissions, resources, 1)
            /\ response' = [api |-> "ensure_superadmin_role",
                            raised |-> FALSE,
                            created |-> (Cardinality(roles') - Cardinality(roles))
                                + (Cardinality(permissions')
                                   - Cardinality(permissions))]
            /\ UNCHANGED <<resources, policies, role_policies,
                           policy_permissions, user_roles, tables_exist>>

\* create_app(): sync_resources(), then db.create_all(), then
\* ensure_superadmin_role(), each of them returning
CreateApp ==
    /\ UNCHANGED <<inflight, session, row_order>>
    /\ Idle
    /\ LET synced == IF tables_exist THEN SyncCommitted(resources, 0)
                     ELSE resources
       IN /\ resources' = synced
          /\ tables_exist' = TRUE
          /\ roles' = SeededRoles(roles)
          /\ permissions' = EnsurePermissions(
                 CascadePermissions(permissions,
                     Ids(Range(resources)) \ Ids(Range(synced))),
                 synced, 1)
    /\ response' = [api |-> "create_app", raised |-> FALSE]
    /\ UNCHANGED <<policies, role_policies, policy_permissions, user_roles>>

\* a database on which no start-up has run yet
InitBoot ==
    /\ resources = <<>>
    /\ permissions = {}
    /\ policies = {}
    /\ roles = {}
    /\ role_policies = EmptyBag
    /\ policy_permissions = EmptyBag
    /\ user_roles = EmptyBag
    /\ tables_exist = FALSE
    /\ response = NoResponse
    /\ inflight = NoInflight
    /\ session = NoWrites
    /\ row_order = "insertion"

NextBoot ==
    \/ \E fail \in SyncFailPoints : SyncResources(fail)
    \/ CreateAll
    \/ EnsureSuperadminRole
    \/ CreateApp
    \/ \E name \in BootNames : ResourceListPost(name, "c1")
    \/ \E rid \in ResourceIds, c \in Companies :
          PermissionListPost(rid, "read", c)
    \/ RoleListPost("superadmin", "c1")
    \/ TakeResponse

SpecBoot == InitBoot /\ [][NextBoot]_vars

----------------------------------------------------------------------------
(* Administrative updates and removals.                                    *)

\* db.session.get(Model, id): the row with the id, or none
RowById(rows, id) ==
    IF \E row \in rows : row.id = id
    THEN CHOOSE row \in rows : row.id = id
    ELSE NoRow

\* schema.load(request.json, instance=resource) and commit, as PUT and PATCH
\* on /resources/<resource_id> do; a constraint violation at the commit is
\* caught by the SQLAlchemyError clause
ResourceUpdate(api, resource_id, name, company_id) ==
    /\ UNCHANGED <<inflight, session, row_order>>
    /\ Idle
    /\ IF resource_id \notin Ids(Range(resources))
       THEN /\ response' = [api |-> api, status |-> 404, raised |-> "none"]
            /\ UNCHANGED store
       ELSE IF \E r \in Range(resources) : /\ r.id # resource_id
                                           /\ r.name = name
                                           /\ r.company_id = company_id
       THEN /\ response' = [api |-> api, status |-> 500,
                            raised |-> "UniqueViolation"]
            /\ UNCHANGED store
       ELSE /\ resources' = [i \in DOMAIN resources |->
                   IF resources[i].id = resource_id
                   THEN [id |-> resource_id, name |-> name,
                         company_id |-> company_id]
                   ELSE resources[i]]
            /\ response' = [api |-> api, status |-> 200, raised |-> "none"]
            /\ UNCHANGED <<permissions, policies, roles, role_policies,
                           policy_permissions, user_roles, tables_exist>>

\* PUT /resources/<resource_id>
ResourcePut(resource_id, name, company_id) ==
    ResourceUpdate("PUT /resources", resource_id, name, company_id)

\* PATCH /resources/<resource_id> with a name
ResourcePatch(resource_id, name) ==
    ResourceUpdate("PATCH /resources", resource_id, name,
        IF resource_id \in Ids(Range(resources))
        THEN RowById(Range(resources), resource_id).company_id ELSE None)

\* variant: the delete of a resource deletes its permissions in the same
\* commit
ResourceDelete_cascading(resource_id, fk_enforced) ==
    /\ UNCHANGED <<inflight, session, row_order>>
    /\ Idle
    /\ IF resource_id \notin Ids(Range(resources))
       THEN /\ response' = [api |-> "DELETE /resources", status |-> 404,
                            raised |-> "none"]
            /\ UNCHANGED store
       ELSE /\ resources' = SelectSeq(resources, LAMBDA r : r.id # resource_id)
            /\ permissions' = {p \in permissions : p.resource_id # resource_id}
            /\ response' = [api |-> "DELETE /resources", status |-> 204,
                            raised |-> "none"]
            /\ UNCHANGED <<policies, roles, role_policies, policy_permissions,
                           user_roles, tables_exist>>

\* DELETE /resources/<resource_id>; no cascade is declared for the
\* permissions of the resource, so with them present an engine that enforces
\* foreign keys refuses the delete and one that does not leaves them behind
ResourceDelete(resource_id, fk_enforced) ==
    /\ UNCHANGED <<inflight, session, row_order>>
    /\ Idle
    /\ IF resource_id \notin Ids(Range(resources))
       THEN /\ response' = [api |-> "DELETE /resources", status |-> 404,
                            raised |-> "none"]
            /\ UNCHANGED store
       ELSE IF fk_enforced /\ \E p \in permissions : p.resource_id = resource_id
       THEN /\ response' = [api |-> "DELETE /resources", status |-> 500,
                            raised |-> "ForeignKeyViolation"]
            /\ UNCHANGED store
       ELSE /\ resources' = SelectSeq(resources,
                                      LAMBDA r : r.id # resource_id)
            /\ response' = [api |-> "DELETE /resources", status |-> 204,
                            raised |-> "none"]
            /\ UNCHANGED <<permissions, policies, roles, role_policies,
                           policy_permissions, user_roles, tables_exist>>

\* schema.load(request.json, instance=permission) and commit, as PUT and
\* PATCH on /permissions/<permission_id> do
PermissionUpdate(api, permission_id, resource_id, operation, company_id) ==
    /\ UNCHANGED <<inflight, session, row_order>>
    /\ Idle
    /\ IF permission_id \notin Ids(permissions)
       THEN /\ response' = [api |-> api, status |-> 404, raised |-> "none"]
            /\ UNCHANGED store
       ELSE IF operation \notin OperationEnum
       THEN /\ response' = [api |-> api, status |-> 400, raised |-> "none"]
            /\ UNCHANGED store
       ELSE IF resource_id \notin Ids(Range(resources))
       THEN /\ response' = [api |-> api, status |-> 500,
                            raised |-> "ForeignKeyViolation"]
            /\ UNCHANGED store
       ELSE IF \E p \in permissions : /\ p.id # permission_id
                                      /\ p.company_id = company_id
                                      /\ p.resource_id = resource_id
                                      /\ p.operation = operation
       THEN /\ response' = [api |-> api, status |-> 500,
                            raised |-> "UniqueViolation"]
            /\ UNCHANGED store
       ELSE /\ permissions' =
                   (permissions \ {RowById(permissions, permission_id)})
                   \cup {[id |-> permission_id, resource_id |-> resource_id,
                          operation |-> operation, company_id |-> company_id]}
            /\ response' = [api |-> api, status |-> 200, raised |-> "none"]
            /\ UNCHANGED <<resources, policies, roles, role_policies,
                           policy_permissions, user_roles, tables_exist>>

\* PUT /permissions/<permission_id>
PermissionPut(permission_id, resource_id, operation, company_id) ==
    PermissionUpdate("PUT /permissions", permission_id, resource_id,
                     operation, company_id)

\* PATCH /permissions/<permission_id> with an operation
PermissionPatch(permission_id, operation) ==
    LET row == RowById(permissions, permission_id)
    IN PermissionUpdate("PATCH /permissions", permission_id,
           IF row = NoRow THEN NoRow.id ELSE row.resource_id, operation,
           IF row = NoRow THEN None ELSE row.company_id)

\* DELETE /permissions/<permission_id>
PermissionDelete(permission_id, fk_enforced) ==
    /\ UNCHANGED <<inflight, session, row_order>>
    /\ Idle
    /\ IF permission_id \notin Ids(permissions)
       THEN /\ response' = [api |-> "DELETE /permissions", status |-> 404,
                            raised |-> "none"]
            /\ UNCHANGED store
       ELSE IF /\ fk_enforced
               /\ \E pp \in BagToSet(policy_permissions) :
                      pp.permission_id = permission_id
       THEN /\ response' = [api |-> "DELETE /permissions", status |-> 500,
                            raised |-> "ForeignKeyViolation"]
            /\ UNCHANGED store
       ELSE /\ permissions' =
                   permissions \ {RowById(permissions, permission_id)}
            /\ response' = [api |-> "DELETE /permissions", status |-> 204,
                            raised |-> "none"]
            /\ UNCHANGED <<resources, policies, roles, role_policies,
                           policy_permissions, user_roles, tables_exist>>

\* schema.load(request.json, instance=policy) and commit, as PUT and PATCH
\* on /policies/<policy_id> do
PolicyUpdate(api, policy_id, name) ==
    /\ UNCHANGED <<inflight, session, row_order>>
    /\ Idle
    /\ IF policy_id \notin Ids(policies)
       THEN /\ response' = [api |-> api, status |-> 404, raised |-> "none"]
            /\ UNCHANGED store
       ELSE IF name = ""
       THEN /\ response' = [api |-> api, status |-> 400, raised |-> "none"]
            /\ UNCHANGED store
       ELSE IF \E p \in policies : p.id # policy_id /\ p.name = name
       THEN /\ response' = [api |-> api, status |-> 500,
                            raised |-> "UniqueViolation"]
            /\ UNCHANGED store
       ELSE /\ policies' = (policies \ {RowById(policies, policy_id)})
                           \cup {[id |-> policy_id, name |-> name]}
            /\ response' = [api |-> api, status |-> 200, raised |-> "none"]
            /\ UNCHANGED <<resources, permissions, roles, role_policies,
                           policy_permissions, user_roles, tables_exist>>

\* PUT /policies/<policy_id>
PolicyPut(policy_id, name) == PolicyUpdate("PUT /policies", policy_id, name)

\* PATCH /policies/<policy_id> with a name
PolicyPatch(policy_id, name) ==
    PolicyUpdate("PATCH /policies", policy_id, name)

\* schema.load(request.json, instance=role) and commit, as PUT and PATCH on
\* /roles/<role_id> do
RoleUpdate(api, role_id, name, company_id) ==
    /\ UNCHANGED <<inflight, session, row_order>>
    /\ Idle
    /\ IF role_id \notin Ids(roles)
       THEN /\ response' = [api |-> api, status |-> 404, raised |-> "none"]
            /\ UNCHANGED store
       ELSE IF \E r \in roles : r.id # role_id /\ r.name = name
       THEN /\ response' = [api |-> api, status |-> 409,
                            raised |-> "UniqueViolation"]
            /\ UNCHANGED store
       ELSE IF company_id = None
       THEN /\ response' = [api |-> api, status |-> 409,
                            raised |-> "NotNullViolation"]
            /\ UNCHANGED store
       ELSE /\ roles' = (roles \ {RowById(roles, role_id)})
                        \cup {[id |-> role_id, name |-> name,
                               company_id |-> company_id]}
            /\ response' = [api |-> api, status |-> 200, raised |-> "none"]
            /\ UNCHANGED <<resources, permissions, policies, role_policies,
                           policy_permissions, user_roles, tables_exist>>

\* PUT /roles/<role_id>
RolePut(role_id, name, company_id) ==
    RoleUpdate("PUT /roles", role_id, name, company_id)

\* PATCH /roles/<role_id> with a name
RolePatch(role_id, name) ==
    RoleUpdate("PATCH /roles", role_id, name,
        IF role_id \in Ids(roles)
        THEN RowById(roles, role_id).company_id ELSE None)

\* DELETE /roles/<role_id>/policies?policy_id=...
RolePoliciesDelete(role_id, policy_id) ==
    /\ UNCHANGED <<inflight, session, row_order>>
    /\ Idle
    /\ IF policy_id = NoRow.id
       THEN /\ response' = [api |-> "DELETE /roles/policies", status |-> 400]
            /\ UNCHANGED store
       ELSE IF role_id \notin Ids(roles) \/ policy_id \notin Ids(policies)
       THEN /\ response' = [api |-> "DELETE /roles/policies", status |-> 404]
            /\ UNCHANGED store
       ELSE IF ~\E rp \in BagToSet(role_policies) :
                   rp.role_id = role_id /\ rp.policy_id = policy_id
       THEN /\ response' = [api |-> "DELETE /roles/policies", status |-> 404]
            /\ UNCHANGED store
       ELSE /\ role_policies' = role_policies (-)
                   SetToBag({[role_id |-> role_id, policy_id |-> policy_id]})
            /\ response' = [api |-> "DELETE /roles/policies", status |-> 204]
            /\ UNCHANGED <<resources, permissions, policies, roles,
                           policy_permissions, user_roles, tables_exist>>

\* a variant whose store has no uq_user_role constraint
UserRoleUpdate_unchecked(api, target, user_id, role_id, company_id) ==
    LET new == [user_id |-> user_id, role_id |-> role_id,
                company_id |-> company_id]
    IN /\ UNCHANGED <<inflight, session, row_order>>
       /\ Idle
       /\ IF target \notin BagToSet(user_roles)
          THEN /\ response' = [api |-> api, status |-> 404, raised |-> "none"]
               /\ UNCHANGED store
          ELSE IF role_id \notin Ids(roles)
          THEN /\ response' = [api |-> api, status |-> 409,
                               raised |-> "ForeignKeyViolation"]
               /\ UNCHANGED store
          ELSE /\ user_roles' = (user_roles (-) SetToBag({target}))
                                (+) SetToBag({new})
               /\ response' = [api |-> api, status |-> 200, raised |-> "none"]
               /\ UNCHANGED <<resources, permissions, policies, roles,
                              role_policies, policy_permissions, tables_exist>>

\* schema.load(json, instance=user_role) and commit, as PUT and PATCH on
\* /user-roles/<user_role_id> do; target is the row the id designates
UserRoleUpdate(api, target, user_id, role_id, company_id) ==
    LET new == [user_id |-> user_id, role_id |-> role_id,
                company_id |-> company_id]
    IN /\ UNCHANGED <<inflight, session, row_order>>
       /\ Idle
       /\ IF target \notin BagToSet(user_roles)
          THEN /\ response' = [api |-> api, status |-> 404, raised |-> "none"]
               /\ UNCHANGED store
          ELSE IF role_id \notin Ids(roles)
          THEN /\ response' = [api |-> api, status |-> 409,
                               raised |-> "ForeignKeyViolation"]
               /\ UNCHANGED store
          ELSE IF new # target /\ new \in BagToSet(user_roles)
          THEN /\ response' = [api |-> api, status |-> 409,
                               raised |-> "UniqueViolation"]
               /\ UNCHANGED store
          ELSE /\ user_roles' = (user_roles (-) SetToBag({target}))
                                (+) SetToBag({new})
               /\ response' = [api |-> api, status |-> 200, raised |-> "none"]
               /\ UNCHANGED <<resources, permissions, policies, roles,
                              role_policies, policy_permissions, tables_exist>>

\* PUT /user-roles/<user_role_id>
UserRolePut(target, user_id, role_id, company_id) ==
    UserRoleUpdate("PUT /user-roles", target, user_id, role_id, company_id)

\* PATCH /user-roles/<user_role_id> with a role_id
UserRolePatch(target, role_id) ==
    UserRoleUpdate("PATCH /user-roles", target, target.user_id, role_id,
                   target.company_id)

\* the values the administrative requests are made with
UpdateNames == {"project"}
UpdateOperations == {"read", "transmogrify"}
UserRoleRows == [user_id : Users, role_id : RoleIds, company_id : {"c1"}]

\* the endpoints of resources and permissions and the seeder, on a store
\* whose tables exist
NextPermissions ==
    \/ \E name \in ResourceNames, c \in Companies : ResourceListPost(name, c)
    \/ \E rid \in ResourceIds, name \in UpdateNames, c \in Companies :
          ResourcePut(rid, name, c)
    \/ \E rid \in ResourceIds, name \in UpdateNames : ResourcePatch(rid, name)
    \/ \E rid \in ResourceIds, fk \in BOOLEAN : ResourceDelete(rid, fk)
    \/ \E rid \in ResourceIds, c \in Companies :
          PermissionListPost(rid, "read", c)
    \/ \E pid \in PermissionIds, rid \in ResourceIds,
          op \in UpdateOperations, c \in Companies :
          PermissionPut(pid, rid, op, c)
    \/ \E pid \in PermissionIds, op \in UpdateOperations :
          PermissionPatch(pid, op)
    \/ \E pid \in PermissionIds, fk \in BOOLEAN : PermissionDelete(pid, fk)
    \/ EnsureSuperadminRole
    \/ TakeResponse

SpecPermissions == Init /\ [][NextPermissions]_vars

\* the endpoints of policies, roles, role policies and user roles
NextAssignments ==
    \/ \E name \in PolicyNames : PolicyListPost(name)
    \/ \E pid \in PolicyIds, name \in PolicyNames : PolicyPut(pid, name)
    \/ \E pid \in PolicyIds, name \in PolicyNames : PolicyPatch(pid, name)
    \/ \E name \in RoleNames, c \in {"c1", None} : RoleListPost(name, c)
    \/ \E rid \in RoleIds, name \in RoleNames, c \in {"c1", None} :
          RolePut(rid, name, c)
    \/ \E rid \in RoleIds, name \in RoleNames : RolePatch(rid, name)
    \/ \E rid \in RoleIds, pid \in PolicyIds : RolePoliciesPost(rid, pid)
    \/ \E rid \in RoleIds, pid \in PolicyIds : RolePoliciesDelete(rid, pid)
    \/ \E u \in Users, rid \in RoleIds : UserRoleListPost(u, rid, "c1")
    \/ \E target \in UserRoleRows, u \in Users, rid \in RoleIds :
          UserRolePut(target, u, rid, "c1")
    \/ \E target \in UserRoleRows, rid \in RoleIds : UserRolePatch(target, rid)
    \/ TakeResponse

SpecAssignments == Init /\ [][NextAssignments]_vars

----------------------------------------------------------------------------
(* Two callers assigning policies to roles at the same time.  Each handler *)
(* runs in its own session: its existence check and its insert are two     *)
(* steps, and the steps of the two callers interleave.                     *)

RacePolicies == {1}

\* the other caller holds the same pair between its check and its insert
RacesWith(c, role_id, policy_id) ==
    \E d \in Callers \ {c} : /\ inflight[d].pc = "checked"
                             /\ inflight[d].role_id = role_id
                             /\ inflight[d].policy_id = policy_id

\* RolePoliciesResource.post up to the query for an existing assignment
AssignCheck(c, role_id, policy_id) ==
    LET request == [role_id |-> role_id, policy_id |-> policy_id,
                    raced |-> RacesWith(c, role_id, policy_id),
                    stale |-> FALSE]
        done(status) == request @@ [pc |-> "done", status |-> status]
    IN /\ Idle
       /\ inflight[c].pc = "none"
       /\ TotalRows + Cardinality(Callers) <= MaxRows
       /\ inflight' =
            [d \in Callers |->
               IF d = c
               THEN IF role_id \notin Ids(roles) \/ policy_id \notin Ids(policies)
                    THEN done(404)
                    ELSE IF BagIn(RolePolicyRow(role_id, policy_id), role_policies)
                    THEN done(409)
                    ELSE request @@ [pc |-> "checked", status |-> 0]
               ELSE IF RacesWith(c, role_id, policy_id) /\ inflight[d].pc = "checked"
                    THEN [inflight[d] EXCEPT !.raced = TRUE]
                    ELSE inflight[d]]
       /\ UNCHANGED <<store, response, session, row_order>>

\* the rest of RolePoliciesResource.post: add the row and commit.  The table
\* has no uniqueness constraint, so the insert succeeds; a store that
\* serialises transactions (isolated) fails the commit of the caller whose
\* check is stale, which the handler answers 500
AssignInsert(c, isolated) ==
    LET mine == inflight[c]
        row == RolePolicyRow(mine.role_id, mine.policy_id)
    IN /\ Idle
       /\ inflight[c].pc = "checked"
       /\ IF isolated /\ mine.stale
          THEN /\ inflight' = [inflight EXCEPT ![c].pc = "done",
                                               ![c].status = 500]
               /\ UNCHANGED store
          ELSE /\ role_policies' = role_policies (+) SetToBag({row})
               /\ inflight' =
                    [d \in Callers |->
                       IF d = c
                       THEN [mine EXCEPT !.pc = "done", !.status = 201]
                       ELSE IF /\ inflight[d].pc = "checked"
                               /\ inflight[d].role_id = mine.role_id
                               /\ inflight[d].policy_id = mine.policy_id
                            THEN [inflight[d] EXCEPT !.stale = TRUE]
                            ELSE inflight[d]]
               /\ UNCHANGED <<resources, permissions, policies, roles,
                              policy_permissions, user_roles, tables_exist>>
       /\ UNCHANGED <<response, session, row_order>>

\* the caller receives the reply of its request
AssignReturn(c) ==
    /\ inflight[c].pc = "done"
    /\ \A d \in Callers : inflight[d].pc # "checked"
    /\ inflight' = [inflight EXCEPT ![c] = NotStarted]
    /\ UNCHANGED <<store, response, session, row_order>>

\* roles and policies are created, policies are assigned by concurrent
\* callers and removed
NextRace ==
    \/ \E name \in RoleNames : RoleListPost(name, "c1")
    \/ \E name \in PolicyNames : PolicyListPost(name)
    \/ \E c \in Callers, rid \in RoleIds, pid \in RacePolicies :
          AssignCheck(c, rid, pid)
    \/ \E c \in Callers, isolated \in BOOLEAN : AssignInsert(c, isolated)
    \/ \E c \in Callers : AssignReturn(c)
    \/ \E rid \in RoleIds, pid \in RacePolicies : RolePoliciesDelete(rid, pid)
    \/ TakeResponse

SpecRace == Init /\ [][NextRace]_vars

----------------------------------------------------------------------------
(* The access check served while administrative requests commit.  The      *)
(* check runs its queries one after the other without a lock; each query   *)
(* reads what is committed when it runs.                                   *)

\* the reply of a check that denies
Denied(reason, status) ==
    [body |-> [access_granted |-> FALSE, reason |-> reason], status |-> status]

Resolving == inflight["a"]

\* the check moves on to its next query, or ends with a result
ResolveStep(next) ==
    /\ inflight' = [inflight EXCEPT !["a"] = next]
    /\ UNCHANGED <<store, response, session, row_order>>

ResolveEnd(result) == [Resolving EXCEPT !.pc = "done", !.result = result]

\* CheckAccessResource.post is called: the three fields are read
ResolveBegin(user_id, resource_name, operation) ==
    /\ Resolving.pc = "none"
    /\ ~Falsy(user_id) /\ ~Falsy(resource_name) /\ ~Falsy(operation)
    /\ ResolveStep([pc |-> "resource", user_id |-> user_id,
                    resource |-> resource_name, operation |-> operation,
                    before |-> CheckAccessResourcePostResult(
                                   user_id, resource_name, operation, 0),
                    read |-> {}, resource_id |-> NoRow.id,
                    result |-> NoResponse])

\* 1. Find the resource, 2. validate the operation
ResolveResource ==
    /\ Resolving.pc = "resource"
    /\ LET resource == ResourceByName(Resolving.resource)
       IN ResolveStep(
            IF resource = NoRow
            THEN ResolveEnd(Denied("Resource '" \o Resolving.resource
                                   \o "' not found.", 404))
            ELSE IF Resolving.operation \notin OperationEnum
            THEN ResolveEnd(Denied("Operation '" \o Resolving.operation
                                   \o "' is invalid.", 400))
            ELSE [Resolving EXCEPT !.pc = "user_roles",
                                   !.resource_id = resource.id])

\* 3. Get all user roles
ResolveUserRoles ==
    /\ Resolving.pc = "user_roles"
    /\ LET user_rolesQ == UserRolesOf(Resolving.user_id)
       IN ResolveStep(
            IF user_rolesQ = {}
            THEN ResolveEnd(Denied("User has no roles assigned.", 403))
            ELSE [Resolving EXCEPT !.pc = "role_policies",
                       !.read = {ur.role_id : ur \in user_rolesQ}])

\* 4. Get all policies for these roles
ResolveRolePolicies ==
    /\ Resolving.pc = "role_policies"
    /\ LET role_policiesQ == RolePoliciesOf(Resolving.read)
       IN ResolveStep(
            IF role_policiesQ = {}
            THEN ResolveEnd(Denied("User's roles have no policies assigned.",
                                   403))
            ELSE [Resolving EXCEPT !.pc = "policy_permissions",
                       !.read = {rp.policy_id : rp \in role_policiesQ}])

\* 5. Get all policy_permissions for these policies
ResolvePolicyPermissions ==
    /\ Resolving.pc = "policy_permissions"
    /\ LET policy_permissionsQ == PolicyPermissionsOf(Resolving.read)
       IN ResolveStep(
            IF policy_permissionsQ = {}
            THEN ResolveEnd(Denied("Policies have no permissions assigned.",
                                   403))
            ELSE [Resolving EXCEPT !.pc = "permission",
                       !.read = {pp.permission_id : pp \in policy_permissionsQ}])

\* 6. Check for a matching permission
ResolvePermission ==
    /\ Resolving.pc = "permission"
    /\ ResolveStep(
         IF MatchingPermissions(Resolving.read, [id |-> Resolving.resource_id],
                                Resolving.operation) # {}
         THEN ResolveEnd([body |-> [access_granted |-> TRUE,
                            reason |-> "Access granted by user role and policy."],
                          status |-> 200])
         ELSE ResolveEnd(Denied("No matching permission found for user roles.",
                                403)))

\* the caller of the check receives its reply
ResolveReturn ==
    /\ Resolving.pc = "done"
    /\ ResolveStep(NotStarted)

\* the caller of an administrative request takes its reply when no handler
\* is being served step by step: one administrative request at most commits
\* during a check
TakeResponseBetweenChecks ==
    /\ ~Idle
    /\ Resolving.pc = "none"
    /\ response' = NoResponse
    /\ UNCHANGED <<store, inflight, session, row_order>>

\* the access check of one user, step by step, and the administrative
\* requests that write the tables it reads
NextResolve ==
    \/ \E o \in {"read", "transmogrify"} : ResolveBegin("u1", "project", o)
    \/ ResolveResource
    \/ ResolveUserRoles
    \/ ResolveRolePolicies
    \/ ResolvePolicyPermissions
    \/ ResolvePermission
    \/ ResolveReturn
    \/ TakeResponseBetweenChecks
    \/ ResourceListPost("project", "c1")
    \/ \E fk \in BOOLEAN : ResourceDelete(1, fk)
    \/ PermissionListPost(1, "read", "c1")
    \/ \E fk \in BOOLEAN : PermissionDelete(1, fk)
    \/ PolicyListPost("editor-policy")
    \/ RoleListPost("editor", "c1")
    \/ RolePoliciesPost(1, 1)
    \/ RolePoliciesDelete(1, 1)
    \/ PolicyPermissionAdd(1, 1)
    \/ UserRoleListPost("u1", 1, "c1")

SpecResolve == Init /\ [][NextResolve]_vars

----------------------------------------------------------------------------
(* The unit of work of a request.  A handler adds its write to db.session  *)
(* and commits: the commit flushes the pending writes in one transaction   *)
(* and either stores them all or raises, rolls the transaction back and    *)
(* discards them.                                                          *)

Handling == inflight["a"]

\* the request is being served: no reply yet
Serving(api) == [api |-> api, status |-> 0, raised |-> "none"]

\* the outcome of flushing one write on the tables given
FlushOne(write, tables) ==
    IF write.table = "resources"
    THEN IF \E r \in Range(tables.resources) :
               r.name = write.row.name /\ r.company_id = write.row.company_id
         THEN [tables EXCEPT !.raised = "UniqueViolation"]
         ELSE [tables EXCEPT !.resources = Append(@,
                   [id |-> FreshId(Ids(Range(@))), name |-> write.row.name,
                    company_id |-> write.row.company_id])]
    ELSE IF write.row.resource_id \notin Ids(Range(tables.resources))
    THEN [tables EXCEPT !.raised = "ForeignKeyViolation"]
    ELSE IF \E p \in tables.permissions :
               /\ p.id # write.row.id
               /\ p.company_id = write.row.company_id
               /\ p.resource_id = write.row.resource_id
               /\ p.operation = write.row.operation
    THEN [tables EXCEPT !.raised = "UniqueViolation"]
    ELSE [tables EXCEPT !.permissions =
              {p \in @ : p.id # write.row.id} \cup {write.row}]

\* session.flush(): the pending writes in the order they were added, up to
\* the first one the store refuses
RECURSIVE Flush(_, _, _)
Flush(writes, n, tables) ==
    IF n > Len(writes) \/ tables.raised # "none" THEN tables
    ELSE Flush(writes, n + 1, FlushOne(writes[n], tables))

\* ResourceListResource.post up to db.session.add(new_resource)
SessionAddResource(name, company_id) ==
    /\ Idle
    /\ Handling.pc = "none"
    /\ UNCHANGED row_order
    /\ TotalRows + Len(session) < MaxRows
    /\ session' = Append(session,
           [table |-> "resources",
            row |-> [name |-> name, company_id |-> company_id]])
    /\ inflight' = [inflight EXCEPT !["a"] =
           [pc |-> "commit", api |-> "POST /resources", ok |-> 201,
            conflict |-> 409]]
    /\ response' = Serving("POST /resources")
    /\ UNCHANGED store

\* PermissionResource.put up to schema.load(request.json, instance=permission)
SessionLoadPermission(permission_id, resource_id, operation, company_id) ==
    /\ Idle
    /\ Handling.pc = "none"
    /\ UNCHANGED row_order
    /\ IF permission_id \notin Ids(permissions)
       THEN /\ response' = [api |-> "PUT /permissions", status |-> 404,
                            raised |-> "none"]
            /\ UNCHANGED <<store, inflight, session, row_order>>
       ELSE IF operation \notin OperationEnum
       THEN /\ response' = [api |-> "PUT /permissions", status |-> 400,
                            raised |-> "none"]
            /\ UNCHANGED <<store, inflight, session, row_order>>
       ELSE /\ session' = Append(session,
                   [table |-> "permissions",
                    row |-> [id |-> permission_id, resource_id |-> resource_id,
                             operation |-> operation,
                             company_id |-> company_id]])
            /\ inflight' = [inflight EXCEPT !["a"] =
                   [pc |-> "commit", api |-> "PUT /permissions", ok |-> 200,
                    conflict |-> 500]]
            /\ response' = Serving("PUT /permissions")
            /\ UNCHANGED store

\* variant: a commit that raises leaves the writes in the session
SessionCommit_keepsWrites(fail) ==
    LET flushed == Flush(session, 1, [resources |-> resources,
                                      permissions |-> permissions,
                                      raised |-> "none"])
    IN /\ Handling.pc = "commit"
       /\ UNCHANGED row_order
       /\ inflight' = [inflight EXCEPT !["a"] = NotStarted]
       /\ IF fail
          THEN /\ response' = [api |-> Handling.api, status |-> 500,
                               raised |-> "OperationalError"]
               /\ UNCHANGED <<store, session>>
          ELSE IF flushed.raised # "none"
          THEN /\ response' = [api |-> Handling.api,
                               status |-> Handling.conflict,
                               raised |-> flushed.raised]
               /\ UNCHANGED <<store, session>>
          ELSE /\ resources' = flushed.resources
               /\ permissions' = flushed.permissions
               /\ session' = NoWrites
               /\ response' = [api |-> Handling.api, status |-> Handling.ok,
                               raised |-> "none"]
               /\ UNCHANGED <<policies, roles, role_policies,
                              policy_permissions, user_roles, tables_exist>>

\* db.session.commit() and the return or the except clause that follows it:
\* POST /resources answers an IntegrityError 409, PUT /permissions has no
\* clause for it and answers 500 as for any SQLAlchemyError
SessionCommit(fail) ==
    LET flushed == Flush(session, 1, [resources |-> resources,
                                      permissions |-> permissions,
                                      raised |-> "none"])
    IN /\ Handling.pc = "commit"
       /\ UNCHANGED row_order
       /\ inflight' = [inflight EXCEPT !["a"] = NotStarted]
       /\ session' = NoWrites
       /\ IF fail
          THEN /\ response' = [api |-> Handling.api, status |-> 500,
                               raised |-> "OperationalError"]
               /\ UNCHANGED store
          ELSE IF flushed.raised # "none"
          THEN /\ response' = [api |-> Handling.api,
                               status |-> Handling.conflict,
                               raised |-> flushed.raised]
               /\ UNCHANGED store
          ELSE /\ resources' = flushed.resources
               /\ permissions' = flushed.permissions
               /\ response' = [api |-> Handling.api, status |-> Handling.ok,
                               raised |-> "none"]
               /\ UNCHANGED <<policies, roles, role_policies,
                              policy_permissions, user_roles, tables_exist>>

\* the requests that create, update, delete, assign and remove, those on
\* /resources and /permissions/<id> with the session they write through
NextSession ==
    \/ \E name \in ResourceNames, c \in Companies : SessionAddResource(name, c)
    \/ \E pid \in PermissionIds, rid \in ResourceIds,
          op \in UpdateOperations, c \in Companies :
          SessionLoadPermission(pid, rid, op, c)
    \/ \E fail \in BOOLEAN : SessionCommit(fail)
    \/ \E rid \in ResourceIds, c \in Companies :
          PermissionListPost(rid, "read", c)
    \/ \E rid \in ResourceIds, fk \in BOOLEAN : ResourceDelete(rid, fk)
    \/ \E name \in PolicyNames : PolicyListPost(name)
    \/ \E pid \in PolicyIds, name \in PolicyNames : PolicyPut(pid, name)
    \/ \E name \in RoleNames : RoleListPost(name, "c1")
    \/ \E rid \in RoleIds, pid \in PolicyIds : RolePoliciesPost(rid, pid)
    \/ \E rid \in RoleIds, pid \in PolicyIds : RolePoliciesDelete(rid, pid)
    \/ TakeResponseBetweenChecks

SpecSession == Init /\ [][NextSession]_vars

----------------------------------------------------------------------------
(* The seeder on a store in use: resources, roles and policies are         *)
(* created, users and policies are assigned to roles, and the seeder runs. *)
NextSeeding ==
    \/ ResourceListPost("project", "c1")
    \/ EnsureSuperadminRole
    \/ RoleListPost("editor", "c1")
    \/ PolicyListPost("editor-policy")
    \/ \E rid \in RoleIds : RolePoliciesPost(rid, 1)
    \/ \E rid \in RoleIds : UserRoleListPost("u1", rid, "c1")
    \/ TakeResponse

SpecSeeding == Init /\ [][NextSeeding]_vars

----------------------------------------------------------------------------
\* Tenants: the rows of the graph are moved from one company to another.

\* the companies a row is moved to
MoveCompanies == {"c1", "c2", "c3"}

\* the assignments of a user that are moved
MovedUserRoles == [user_id : Users, role_id : {1}, company_id : Companies]

\* the engine plans the lookup of a name: it reads the table, or the unique
\* index on (name, company_id)
EnginePlans(order) ==
    /\ Idle
    /\ order # row_order
    /\ row_order' = order
    /\ UNCHANGED <<store, response, inflight, session>>

\* one chain from a user to a permission is built, in any company, and its
\* resources, permissions, roles and assignments change company
NextCompanies ==
    \/ \E c \in Companies : ResourceListPost("project", c)
    \/ \E rid \in ResourceIds : PermissionListPost(rid, "read", "c1")
    \/ PolicyListPost("editor-policy")
    \/ RoleListPost("editor", "c1")
    \/ RolePoliciesPost(1, 1)
    \/ \E perm \in PermissionIds : PolicyPermissionAdd(1, perm)
    \/ \E c \in Companies : UserRoleListPost("u1", 1, c)
    \/ \E rid \in ResourceIds, c \in MoveCompanies :
          ResourcePut(rid, "project", c)
    \/ \E pid \in PermissionIds, rid \in ResourceIds, c \in Companies :
          PermissionPut(pid, rid, "read", c)
    \/ \E c \in Companies : RolePut(1, "editor", c)
    \/ \E target \in MovedUserRoles, c \in MoveCompanies :
          UserRolePut(target, "u1", 1, c)
    \/ \E order \in RowOrders : EnginePlans(order)
    \/ TakeResponse

SpecCompanies == Init /\ [][NextCompanies]_vars

----------------------------------------------------------------------------
\* The decorator check_access_required(operation) around a view.

\* what the wrapped function returns without running the view
Refused(request, body, status) ==
    request @@ [body |-> body, status |-> status, view_ran |-> FALSE]

\* variant: every denial is answered 403
WrappedView_denialIs403(user_id, resource_name, operation, fail) ==
    LET request == [api |-> "check_access_required", user_id |-> user_id,
                    resource |-> resource_name, operation |-> operation,
                    fail |-> fail]
        decision == check_access(user_id, resource_name, operation, fail)
    IN /\ UNCHANGED <<inflight, session, row_order>>
       /\ Idle
       /\ response' =
            IF Falsy(user_id) \/ Falsy(resource_name)
            THEN Refused(request,
                         [error |-> "Missing user_id or resource_name for access check."],
                         400)
            ELSE IF decision.access_granted
            THEN request @@ [body |-> [view |-> "returned"], status |-> 200,
                             view_ran |-> TRUE]
            ELSE Refused(request,
                         [error |-> "Access denied",
                          reason |-> decision.reason],
                         403)
       /\ UNCHANGED store

\* wrapped(*args, **kwargs): a request for a view decorated with
\* check_access_required(operation), from the caller user_id (g.user_id or
\* the header X-User-Id) for the route's resource_name; the view, when it
\* runs, reads and answers 200
WrappedView(user_id, resource_name, operation, fail) ==
    LET request == [api |-> "check_access_required", user_id |-> user_id,
                    resource |-> resource_name, operation |-> operation,
                    fail |-> fail]
        decision == check_access(user_id, resource_name, operation, fail)
    IN /\ UNCHANGED <<inflight, session, row_order>>
       /\ Idle
       /\ response' =
            IF Falsy(user_id) \/ Falsy(resource_name)
            THEN Refused(request,
                         [error |-> "Missing user_id or resource_name for access check."],
                         400)
            ELSE IF decision.access_granted
            THEN request @@ [body |-> [view |-> "returned"], status |-> 200,
                             view_ran |-> TRUE]
            ELSE Refused(request,
                         [error |-> "Access denied",
                          reason |-> decision.reason],
                         decision.status)
       /\ UNCHANGED store

\* the operations views are decorated with
DecoratedOperations == {"read", "delete", "transmogrify"}

\* one chain from a user to a permission is built and decorated views are
\* requested
NextWrapped ==
    \/ \E name \in ResourceNames : ResourceListPost(name, "c1")
    \/ \E rid \in ResourceIds : PermissionListPost(rid, "read", "c1")
    \/ PolicyListPost("editor-policy")
    \/ RoleListPost("editor", "c1")
    \/ RolePoliciesPost(1, 1)
    \/ \E perm \in PermissionIds : PolicyPermissionAdd(1, perm)
    \/ UserRoleListPost("u1", 1, "c1")
    \/ \E u \in RequestUsers, r \in RequestResources \cup {None},
          o \in DecoratedOperations : WrappedView(u, r, o, 0)
    \/ \E f \in FailPoints : WrappedView("u1", "project", "read", f)
    \/ TakeResponse

SpecWrapped == Init /\ [][NextWrapped]_vars

----------------------------------------------------------------------------
(* Properties of the access check.                                         *)

CheckApis == {"POST /check-access", "check_access"}
Checked == response.api \in CheckApis

\* the three fields of the last access check are all present and non-empty
NonEmptyRequest ==
    /\ ~Falsy(response.user_id)
    /\ ~Falsy(response.resource)
    /\ ~Falsy(response.operation)

\* the value an implementation returns for a decision
Expected(api, granted, reason, status) ==
    IF api = "POST /check-access"
    THEN [body |-> [access_granted |-> granted, reason |-> reason],
          status |-> status]
    ELSE [access_granted |-> granted, reason |-> reason, status |-> status]

ResourceExists(name) == \E i \in DOMAIN resources : resources[i].name = name
HasRoles(user_id) == \E ur \in BagToSet(user_roles) : ur.user_id = user_id
HasPolicies(user_id) ==
    \E ur \in BagToSet(user_roles), rp \in BagToSet(role_policies) :
        ur.user_id = user_id /\ rp.role_id = ur.role_id
HasPermissions(user_id) ==
    \E ur \in BagToSet(user_roles), rp \in BagToSet(role_policies),
       pp \in BagToSet(policy_permissions) :
        /\ ur.user_id = user_id
        /\ rp.role_id = ur.role_id
        /\ pp.policy_id = rp.policy_id
\* a chain user -> role -> policy -> permission on (resource row, operation)
HasChain(user_id, resource, operation) ==
    \E ur \in BagToSet(user_roles), rp \in BagToSet(role_policies),
       pp \in BagToSet(policy_permissions), p \in permissions :
        /\ ur.user_id = user_id
        /\ rp.role_id = ur.role_id
        /\ pp.policy_id = rp.policy_id
        /\ p.id = pp.permission_id
        /\ p.resource_id = resource.id
        /\ p.operation = operation

\* C1: an access check with non-empty fields and no store failure, naming a
\* resource of which no row exists, returns granted=false, status 404 and
\* reason "Resource '<name>' not found.", whatever the user's roles,
\* policies and permissions and whether or not the operation is valid.
C1_UnknownResourceIsNotFound ==
    (Checked /\ response.fail = 0 /\ NonEmptyRequest
        /\ ~ResourceExists(response.resource))
    => response.result =
         Expected(response.api, FALSE,
                  "Resource '" \o response.resource \o "' not found.", 404)

\* C1 witness: a user holding a role, a policy and a permission asks for a
\* resource that is not stored and is answered 404.
C1_Witness ==
    /\ Checked /\ response.fail = 0 /\ NonEmptyRequest
    /\ ~ResourceExists(response.resource)
    /\ HasPermissions(response.user_id)
    /\ response.result.status = 404

\* C2: when a resource of that name exists and the operation is not one of
\* create, read, update, delete, the check returns granted=false, status 400
\* and reason "Operation '<op>' is invalid." for every user, with or without
\* roles; when the resource does not exist either, the answer is the 404 of
\* the resource lookup, which comes first.
C2_InvalidOperationIsBadRequest ==
    (Checked /\ response.fail = 0 /\ NonEmptyRequest
        /\ response.operation \notin {"create", "read", "update", "delete"})
    => IF ResourceExists(response.resource)
       THEN response.result =
              Expected(response.api, FALSE,
                       "Operation '" \o response.operation \o "' is invalid.",
                       400)
       ELSE response.result.status = 404

\* C2 witness: a user without any role assignment asks for an invalid
\* operation on a stored resource and is answered 400.
C2_Witness ==
    /\ Checked /\ response.fail = 0 /\ NonEmptyRequest
    /\ ResourceExists(response.resource)
    /\ response.operation = "transmogrify"
    /\ ~HasRoles(response.user_id)
    /\ \E ur \in BagToSet(user_roles) : ur.user_id # response.user_id
    /\ response.result.status = 400

\* C3: for a stored resource and a valid operation the denial names the first
\* empty hop: no assignment of the user, else no policy of the user's roles,
\* else no permission of those policies, each with status 403.
C3_FirstEmptyHopDecidesReason ==
    (Checked /\ response.fail = 0 /\ NonEmptyRequest
        /\ ResourceExists(response.resource)
        /\ response.operation \in {"create", "read", "update", "delete"})
    => /\ ~HasRoles(response.user_id)
          => response.result =
               Expected(response.api, FALSE, "User has no roles assigned.", 403)
       /\ (HasRoles(response.user_id) /\ ~HasPolicies(response.user_id))
          => response.result =
               Expected(response.api, FALSE,
                        "User's roles have no policies assigned.", 403)
       /\ (HasPolicies(response.user_id) /\ ~HasPermissions(response.user_id))
          => response.result =
               Expected(response.api, FALSE,
                        "Policies have no permissions assigned.", 403)

\* C3 witness: the user's roles have a policy without permissions while
\* another policy has one, and the check answers with the third reason.
C3_Witness ==
    /\ Checked /\ response.fail = 0
    /\ HasPolicies(response.user_id) /\ ~HasPermissions(response.user_id)
    /\ policy_permissions # EmptyBag
    /\ response.result.status = 403
    /\ response.api = "POST /check-access"
    /\ response.result.body.reason = "Policies have no permissions assigned."

\* C4: for a stored resource and a valid operation the check grants (200,
\* "Access granted by user role and policy.") exactly when some chain
\* assignment -> role policy -> policy permission -> permission on the
\* resolved resource and the operation exists; when every hop is non-empty
\* and no such permission exists it answers 403 "No matching permission
\* found for user roles.".
C4_GrantedIffChain ==
    (Checked /\ response.fail = 0 /\ NonEmptyRequest
        /\ ResourceExists(response.resource)
        /\ response.operation \in {"create", "read", "update", "delete"})
    => LET resource == ResourceByName(response.resource)
           chain == HasChain(response.user_id, resource, response.operation)
       IN  /\ chain
              => response.result =
                   Expected(response.api, TRUE,
                            "Access granted by user role and policy.", 200)
           /\ ~chain => response.result.status # 200
           /\ (~chain /\ HasPermissions(response.user_id))
              => response.result =
                   Expected(response.api, FALSE,
                            "No matching permission found for user roles.", 403)

\* C4 witness: the user holds two roles, only one of which leads to the
\* permission, and access is granted.
C4_Witness ==
    /\ Checked /\ response.fail = 0
    /\ response.result.status = 200
    /\ \E ur \in BagToSet(user_roles) :
          /\ ur.user_id = response.user_id
          /\ \A rp \in BagToSet(role_policies) : rp.role_id # ur.role_id

\* C5: a check with an empty or missing user_id, resource name or operation
\* is answered 400, also when the named resource does not exist.
C5_EmptyFieldIsBadRequest ==
    (Checked /\ ~NonEmptyRequest) => response.result.status = 400

\* the same access check is sent twice in a row
SameCheckAgain ==
    /\ response.api = response'.api
    /\ response.user_id = response'.user_id
    /\ response.resource = response'.resource
    /\ response.operation = response'.operation
    /\ response.fail = response'.fail

ResultOf(api, user_id, resource_name, operation) ==
    IF api = "POST /check-access"
    THEN CheckAccessResourcePostResult(user_id, resource_name, operation, 0)
    ELSE check_access(user_id, resource_name, operation, 0)

\* the policy is reachable through one of the user's roles
PolicyReachable(user_id, policy_id) ==
    \E ur \in BagToSet(user_roles), rp \in BagToSet(role_policies) :
        /\ ur.user_id = user_id
        /\ rp.role_id = ur.role_id
        /\ rp.policy_id = policy_id

\* the permission is one on the resource the name resolves to and the operation
PermissionMatches(permission_id, resource_name, operation) ==
    /\ ResourceExists(resource_name)
    /\ \E p \in permissions :
          /\ p.id = permission_id
          /\ p.resource_id = ResourceByName(resource_name).id
          /\ p.operation = operation

\* C7: a step that adds a PolicyPermission row never turns a grant into a
\* denial, and when the row links a policy reachable through the user's roles
\* to a permission matching (resource, operation), the result before was 403
\* or 200 and the result after is the grant.
C7_GrantingIsMonotonic ==
    [][policy_permissions' # policy_permissions
        => \A api \in CheckApis, u \in {"u1", "u2", "", None},
              r \in {"project", "config", ""},
              o \in {"read", "delete", "transmogrify", ""} :
              /\ ResultOf(api, u, r, o).status = 200
                 => ResultOf(api, u, r, o)' = ResultOf(api, u, r, o)
              /\ (\E pp \in BagToSet(policy_permissions') :
                     /\ CopiesIn(pp, policy_permissions')
                          > CopiesIn(pp, policy_permissions)
                     /\ PolicyReachable(u, pp.policy_id)
                     /\ PermissionMatches(pp.permission_id, r, o))
                 => /\ ResultOf(api, u, r, o).status \in {200, 403}
                    /\ ResultOf(api, u, r, o)' =
                         Expected(api, TRUE,
                                  "Access granted by user role and policy.",
                                  200)]_vars

\* C7 witness: the only PolicyPermission row has just been added and user u1
\* is now granted read on project.
C7_Witness ==
    /\ response.api = "add PolicyPermission"
    /\ BagCardinality(policy_permissions) = 1
    /\ check_access("u1", "project", "read", 0).access_granted

\* whether a result grants access, and the text it carries
Granted(api, result) ==
    IF api = "POST /check-access"
    THEN "access_granted" \in DOMAIN result.body /\ result.body.access_granted
    ELSE result.access_granted
Message(api, result) ==
    IF api = "POST /check-access"
    THEN IF "reason" \in DOMAIN result.body
         THEN result.body.reason ELSE result.body.error
    ELSE result.reason

\* the check gets as far as the given lookup
LookupReached(lookup) ==
    /\ NonEmptyRequest
    /\ lookup >= 2 => /\ ResourceExists(response.resource)
                      /\ response.operation \in OperationEnum
    /\ lookup >= 3 => HasRoles(response.user_id)
    /\ lookup >= 4 => HasPolicies(response.user_id)
    /\ lookup >= 5 => HasPermissions(response.user_id)

\* C8: when the store fails at a lookup the check gets to, the answer is
\* status 500 with the generic text and no grant, whatever the earlier
\* lookups returned; a lookup that is never made cannot fail the check.
C8_StoreFailureIs500 ==
    (Checked /\ response.fail # 0)
    => IF LookupReached(response.fail)
       THEN /\ response.result.status = 500
            /\ ~Granted(response.api, response.result)
            /\ Message(response.api, response.result)
                 = "An unexpected error occurred."
       ELSE response.result = ResultOf(response.api, response.user_id,
                                       response.resource, response.operation)

\* C8 witness: the permission lookup fails for a user whose chain is
\* complete, and the answer is 500.
C8_Witness ==
    /\ Checked /\ response.fail = 5
    /\ HasChain(response.user_id, ResourceByName(response.resource),
                response.operation)
    /\ response.result.status = 500

\* C9: every outcome carries an access_granted boolean and a reason string,
\* with a status among 200, 400, 403, 404, 500.
C9_EveryOutcomeIsADecision ==
    Checked
    => /\ response.result.status \in {200, 400, 403, 404, 500}
       /\ IF response.api = "POST /check-access"
          THEN /\ DOMAIN response.result.body = {"access_granted", "reason"}
               /\ response.result.body.access_granted \in BOOLEAN
          ELSE /\ DOMAIN response.result = {"access_granted", "reason", "status"}
               /\ response.result.access_granted \in BOOLEAN

----------------------------------------------------------------------------
(* Properties of the start-up: reconciliation and seeding.                 *)

\* C11: a reconciliation run right after one that returned changes no row
\* of the store: nothing is inserted, nothing deleted, ids are as they were.
C11_ReconcileIsIdempotent ==
    [][(/\ response.api = "sync_resources"
        /\ ~response.raised
        /\ response'.api = "sync_resources")
        => /\ store' = store
           /\ ~response'.changed]_vars

\* C11 witness: a reconciliation that changed nothing has run on a store
\* holding the six catalog rows, one of them inserted by a reconciliation.
C11_Witness ==
    /\ response.api = "sync_resources"
    /\ ~response.raised /\ ~response.changed
    /\ tables_exist
    /\ Len(resources) = 6
    /\ \E r \in Range(resources) : r.company_id = None

\* C12: a reconciliation one of whose inserts or deletes fails leaves the
\* store as it was before the call.
C12_ReconcileIsAllOrNothing ==
    [][(response'.api = "sync_resources" /\ response'.raised)
        => store' = store]_vars

\* C12 witness: a reconciliation has failed on a store that needs at least
\* two writes, among them the delete of a resource the catalog does not have.
C12_Witness ==
    /\ response.api = "sync_resources"
    /\ response.raised
    /\ "project" \in StoredNames
    /\ SyncWrites(resources) >= 2

\* C13: once start-up has finished, the stored resource names are the six
\* names of the catalog, whatever the database held before.
C13_BootAgreesWithCatalog ==
    response.api = "create_app"
    => StoredNames = {"ConfigResource", "PermissionResource",
                      "PolicyResource", "ResourceResource",
                      "RoleResource", "UserRoleResource"}

\* no two Permission rows have the same resource and operation
OnePermissionPerPair ==
    \A p, q \in permissions :
        (p.resource_id = q.resource_id /\ p.operation = q.operation) => p = q

\* C14: after a seeding there is exactly one Role named superadmin and no
\* two Permission rows share a (resource, operation) pair, and a seeding run
\* right after another creates no row.
C14_SeedingIsIdempotent ==
    (response.api = "ensure_superadmin_role" /\ ~response.raised)
    => /\ Cardinality({r \in roles : r.name = "superadmin"}) = 1
       /\ OnePermissionPerPair
       /\ EnsurePermissions(permissions, resources, 1) = permissions
       /\ SeededRoles(roles) = roles

\* each resource of the store has a Permission for each of the four operations
PermissionClosure ==
    \A r \in Range(resources), op \in {"create", "read", "update", "delete"} :
        \E p \in permissions : p.resource_id = r.id /\ p.operation = op

\* C15: after a seeding every stored resource has a Permission for each of
\* the four operations, and after start-up this holds of a resource of each
\* of the six catalog names.
C15_SeedingClosesOverCatalog ==
    /\ (response.api = "ensure_superadmin_role" /\ ~response.raised)
       => PermissionClosure
    /\ response.api = "create_app"
       => /\ PermissionClosure
          /\ \A name \in {"ConfigResource", "PermissionResource",
                          "PolicyResource", "ResourceResource",
                          "RoleResource", "UserRoleResource"} :
                name \in StoredNames

----------------------------------------------------------------------------
(* Properties of the administrative endpoints.                             *)

PermissionWrites ==
    {"POST /permissions", "PUT /permissions", "PATCH /permissions"}

\* C16: after any sequence of POST, PUT, PATCH and DELETE on /permissions
\* and seedings, at most one Permission exists per (resource_id, operation)
\* pair, and a request that would create a second one is answered 409.
C16_OnePermissionPerResourceOperation ==
    /\ OnePermissionPerPair
    /\ (response.api \in PermissionWrites
        /\ response.raised = "UniqueViolation") => response.status = 409

\* C17: each Permission's resource_id refers to a Resource that exists, and
\* the delete of an existing Resource succeeds (its permissions go with it).
C17_DeleteCascadesToPermissions ==
    /\ \A p \in permissions : p.resource_id \in Ids(Range(resources))
    /\ response.api = "DELETE /resources" => response.status \in {204, 404}

\* C18: assigning a policy a role already has is answered 409 and stores no
\* row, assigning to a missing role or a missing policy is answered 404 and
\* stores no row, and after any step of assignments and removals no
\* (role_id, policy_id) pair has more than one RolePolicy row.
C18_RolePolicyAssignedOnce ==
    [][/\ \A rp \in BagToSet(role_policies') : CopiesIn(rp, role_policies') = 1
       /\ \A rid \in RoleIds, pid \in PolicyIds :
             RolePoliciesPost(rid, pid) =>
                 /\ (rid \notin Ids(roles) \/ pid \notin Ids(policies)) =>
                        (response'.status = 404 /\ store' = store)
                 /\ (/\ rid \in Ids(roles)
                     /\ pid \in Ids(policies)
                     /\ BagIn(RolePolicyRow(rid, pid), role_policies)) =>
                        (response'.status = 409 /\ store' = store)]_vars

\* a duplicate assignment has been refused, and so has one to a missing policy
C18_Witness ==
    /\ response.api = "POST /roles/policies"
    /\ response.status = 409
    /\ BagCardinality(role_policies) = 2

UserRoleRow(user_id, role_id, company_id) ==
    [user_id |-> user_id, role_id |-> role_id, company_id |-> company_id]

\* C19: after any POST, PUT or PATCH on /user-roles no two rows share
\* (user_id, role_id, company_id); a request that would make two rows share
\* the triple is answered 409 and leaves the store as it was.
C19_UserRoleTripleIsUnique ==
    [][/\ \A ur \in BagToSet(user_roles') : CopiesIn(ur, user_roles') = 1
       /\ \A u \in Users, rid \in RoleIds :
             (/\ UserRoleListPost(u, rid, "c1")
              /\ BagIn(UserRoleRow(u, rid, "c1"), user_roles)) =>
                 (response'.status = 409 /\ store' = store)
       /\ \A target \in UserRoleRows, u \in Users, rid \in RoleIds :
             (/\ UserRolePut(target, u, rid, "c1") \/ UserRolePatch(target, rid)
              /\ BagIn(target, user_roles)
              /\ UserRoleRow(u, rid, "c1") # target
              /\ BagIn(UserRoleRow(u, rid, "c1"), user_roles)) =>
                 (response'.status = 409 /\ store' = store)]_vars

\* an update that would have given two rows one triple has been refused
C19_Witness ==
    /\ response.api \in {"PUT /user-roles", "PATCH /user-roles"}
    /\ response.status = 409
    /\ response.raised = "UniqueViolation"
    /\ BagCardinality(user_roles) = 2

AdminWrites ==
    {"POST /roles", "PUT /roles", "PATCH /roles",
     "POST /policies", "PUT /policies", "PATCH /policies",
     "POST /permissions", "PUT /permissions", "PATCH /permissions",
     "POST /resources", "PUT /resources", "PATCH /resources",
     "POST /user-roles", "PUT /user-roles", "PATCH /user-roles"}

\* C20: a create or an update of a role, policy, permission, resource or
\* user role that violates a uniqueness rule is answered 409, and 500 is the
\* answer only to a persistence failure that is not a uniqueness violation.
C20_UniqueViolationIs409 ==
    response.api \in AdminWrites =>
        /\ response.raised = "UniqueViolation" => response.status = 409
        /\ response.status = 500 =>
               response.raised \notin {"none", "UniqueViolation"}

\* C21: after any sequence of POST, PUT and PATCH on /resources no two
\* Resource rows have the same name, so that a lookup by name identifies at
\* most one Resource.
C21_ResourceNamesAreUnique ==
    \A i, j \in DOMAIN resources :
        resources[i].name = resources[j].name => i = j

\* C22: POST /roles with a name no role has and no company_id is answered
\* 201 and the role is stored with a null company_id.
C22_RoleWithoutCompanyIsCreated ==
    [][\A name \in RoleNames :
          (RoleListPost(name, None) /\ name \notin {r.name : r \in roles}) =>
              /\ response'.status = 201
              /\ \E r \in roles' : r.name = name /\ r.company_id = None]_vars
----------------------------------------------------------------------------
(* Properties of concurrent requests.                                      *)

\* C23: when two callers assign the same policy to the same role with
\* their existence checks and inserts interleaved, one receives 201 and the
\* other 409, and one RolePolicy row for the pair exists afterwards.
C23_RaceHasOneWinner ==
    (/\ inflight["a"].pc = "done"
     /\ inflight["b"].pc = "done"
     /\ inflight["a"].raced
     /\ inflight["b"].raced) =>
        /\ {inflight["a"].status, inflight["b"].status} = {201, 409}
        /\ CopiesIn(RolePolicyRow(inflight["a"].role_id,
                                  inflight["a"].policy_id), role_policies) = 1
\* C27: after a removal answered 204 the policy is no longer among the
\* policies assigned to the role; the removal of a policy that is not
\* assigned, or with an unknown role or policy, is answered 404 and changes
\* nothing.
C27_RemovedPolicyIsNotAssigned ==
    [][\A rid \in RoleIds, pid \in RacePolicies :
          RolePoliciesDelete(rid, pid) =>
              /\ response'.status = 204 =>
                     ~BagIn(RolePolicyRow(rid, pid), role_policies')
              /\ (\/ rid \notin Ids(roles)
                  \/ pid \notin Ids(policies)
                  \/ ~BagIn(RolePolicyRow(rid, pid), role_policies)) =>
                     (response'.status = 404 /\ store' = store)]_vars
----------------------------------------------------------------------------
(* Properties of the seeder and of the two implementations of the check.   *)

SuperadminIds == {r.id : r \in {s \in roles : s.name = "superadmin"}}

\* the user is assigned the superadmin role and no other role, and no
\* policy is assigned to that role
OnlySuperadmin(user_id) ==
    /\ UserRolesOf(user_id) # {}
    /\ \A ur \in UserRolesOf(user_id) : ur.role_id \in SuperadminIds
    /\ RolePoliciesOf(SuperadminIds) = {}

DeniedEverywhere(user_id) ==
    \A name \in StoredNames, op \in OperationEnum :
        LET result == CheckAccessResourcePostResult(user_id, name, op, 0)
        IN result.status = 403 /\ ~result.body.access_granted

C28_TwoResolversAgree ==
    (Checked /\ NonEmptyRequest) =>
        LET called == check_access(response.user_id, response.resource,
                                   response.operation, response.fail)
            posted == CheckAccessResourcePostResult(
                          response.user_id, response.resource,
                          response.operation, response.fail)
        IN  /\ response.result = ResultOf(response.api, response.user_id,
                                          response.resource,
                                          response.operation)
               \/ response.fail # 0
            /\ called.status = posted.status
            /\ called.access_granted = Granted("POST /check-access", posted)
            /\ called.reason = Message("POST /check-access", posted)
            /\ response.fail = 0 => /\ "access_granted" \in DOMAIN posted.body
                                    /\ "reason" \in DOMAIN posted.body

C28_Witness ==
    /\ Checked /\ NonEmptyRequest
    /\ response.api = "check_access" /\ response.fail = 0
    /\ response.result.access_granted
    /\ CheckAccessResourcePostResult(response.user_id, response.resource,
                                     response.operation, 0).status = 200
    /\ check_access("u2", "project", "read", 0).status = 403
    /\ check_access("u1", "config", "read", 0).status = 404
    /\ check_access("u1", "project", "transmogrify", 0).status = 400
----------------------------------------------------------------------------
(* Properties of tenancy and of the decorator.                             *)

\* the rows of the graph without their company_id
WithoutCompanies ==
    <<[i \in DOMAIN resources |->
          [id |-> resources[i].id, name |-> resources[i].name]],
      {[id |-> p.id, resource_id |-> p.resource_id,
        operation |-> p.operation] : p \in permissions},
      policies,
      {[id |-> r.id, name |-> r.name] : r \in roles},
      role_policies, policy_permissions,
      {[user_id |-> ur.user_id, role_id |-> ur.role_id] :
          ur \in BagToSet(user_roles)},
      BagCardinality(user_roles)>>

\* C29: two states of the graph that differ only in the company_id of
\* resources, permissions, roles or user-role assignments give the same
\* result, from both implementations, for every user, resource and operation.
C29_DecisionIgnoresCompanies ==
    [][(store' # store /\ WithoutCompanies' = WithoutCompanies) =>
        \A u \in Users, r \in UpdateNames, o \in StoredOperations :
            /\ CheckAccessResourcePostResult(u, r, o, 0)'
                   = CheckAccessResourcePostResult(u, r, o, 0)
            /\ check_access(u, r, o, 0)' = check_access(u, r, o, 0)]_vars
Wrapped == response.api = "check_access_required"

\* the decision of check_access for the request the decorator answered
WrappedDecision ==
    check_access(response.user_id, response.resource, response.operation,
                 response.fail)

\* C30: a view wrapped by check_access_required(operation) has run exactly
\* when the user id and the resource name are present and check_access
\* grants; without one of them the answer is 400, and on a denial it is the
\* decision's status with its reason, the view not having run in either case.
C30_ViewRunsOnlyIfGranted ==
    Wrapped =>
        LET missing == Falsy(response.user_id) \/ Falsy(response.resource)
        IN  /\ response.view_ran
                <=> (~missing /\ WrappedDecision.access_granted)
            /\ missing => response.status = 400 /\ ~response.view_ran
            /\ (~missing /\ ~WrappedDecision.access_granted) =>
                  /\ response.status = WrappedDecision.status
                  /\ response.body.reason = WrappedDecision.reason
                  /\ response.body.error = "Access denied"
                  /\ ~response.view_ran

C30_Witness ==
    /\ Wrapped
    /\ ~response.view_ran
    /\ response.status = 404
    /\ response.body.reason = WrappedDecision.reason
    /\ HasRoles(response.user_id)
====
